---- MODULE Spec2Model ----
(***************************************************************************)
(* Model of the RAG document consultant: the Streamlit application         *)
(* (app.py), the RAGCore orchestration (rag_core.py) and the document      *)
(* loaders (ingest_data.py).                                               *)
(*                                                                         *)
(* A browser session owns one RAGCore and its session_state; sessions      *)
(* share only the file system (the "temp_uploaded" directory and the       *)
(* persisted "vectorstore" directory), which is touched by the first       *)
(* script run and by the Ingest handler alone.  The model follows one      *)
(* session at a time: a new session (a reload, another tab) starts from an *)
(* empty session_state and the file system the earlier ones left.  A       *)
(* script run is sequential; the steps of ask_question are modelled one by *)
(* one so that their order can be observed.  External services (web        *)
(* scraping, the retriever, the hosted language model, the Chroma client)  *)
(* either return or raise; both outcomes are enumerated.  A document is    *)
(* identified by its "source" field and stands for the chunks split from   *)
(* it; what the retriever finds is not interpreted by the program.         *)
(***************************************************************************)
EXTENDS Naturals, Integers, Sequences, FiniteSets, TLC

\* ---------------------------------------------------------------- bounds
MaxSubmits == 3

None == "None"
NotInitialized == "The QA system is not initialized."
WarnNoInput == "Please upload files or provide a URL to ingest."
WarnNotReady == "Please ingest documents before asking questions."
IngestComplete == "Ingestion complete! You can now ask questions."

\* ------------------------------------------------------------ input sets
Files == {"a.pdf", "b.txt"}
URLs == {"u"}
NoURL == ""
Questions == {"q1", "q2"}
Answers == {"a1", "a2"}

VARIABLES
    temp_uploaded,   \* names of the files in the directory "temp_uploaded"
    vectorstore,     \* os.path.exists(VECTORSTORE_DIR)
    started,         \* 'rag_core' is in st.session_state
    rag_core,        \* the fields of st.session_state.rag_core
    chain_ready,     \* st.session_state.chain_ready
    messages,        \* st.session_state.messages
    pc,              \* position of the running chat handler
    frame,           \* locals of the running ask_question
    response,        \* value returned by ask_question to the chat handler
    notice,          \* warning or success shown by the last handler
    trace,           \* pipeline steps done for the question being handled
    exchanges,       \* (question, answer) of the ask_question calls of the
                     \* session that returned an answer of the chain
    click,           \* widget values of the Ingest click being handled
    all_docs,        \* all_docs of the Ingest handler
    nSubmits         \* chat submissions of the session so far

vars == <<temp_uploaded, vectorstore, started, rag_core, chain_ready, messages,
          pc, frame, response, notice, trace, exchanges, click, all_docs,
          nSubmits>>

\* ------------------------------------------------------------- utilities
Range(f) == {f[i] : i \in DOMAIN f}

RECURSIVE Concat(_)
Concat(ss) == IF ss = <<>> THEN <<>> ELSE Head(ss) \o Concat(Tail(ss))

\* os.listdir returns the entries of a directory in arbitrary order
ListDir(dir) ==
    {order \in [1..Cardinality(dir) -> dir] : Range(order) = dir}

\* str.endswith on the file names of Files
Extension == [name \in Files |-> IF name = "a.pdf" THEN ".pdf" ELSE ".txt"]

EndsWith(name, ext) == Extension[name] = ext

\* the pages of the PDF files of Files, and str(page_num + 1)
PageCount == [name \in Files |-> 2]

PageNumber == <<"1", "2">>

\* ---------------------------------------------------------- ingest_data.py
parse_pdf(name) ==
    [page \in 1..PageCount[name] |->
        [source |-> name \o " - Page " \o PageNumber[page]]]

parse_markdown(name) == <<[source |-> name]>>

parse_text(name) == <<[source |-> name]>>

scrape_web_page(url, ok) == IF ok THEN <<[source |-> url]>> ELSE <<>>

load_documents(order) ==
    Concat([i \in DOMAIN order |->
        IF EndsWith(order[i], ".pdf") THEN parse_pdf(order[i])
        ELSE IF EndsWith(order[i], ".md") THEN parse_markdown(order[i])
        ELSE IF EndsWith(order[i], ".txt") THEN parse_text(order[i])
        ELSE <<>>])

\* ------------------------------------------------------------ rag_core.py
RAGCore ==
    [vector_store |-> None, qa_chain |-> None, retriever |-> None,
     memory |-> <<>>]

load_existing_vectorstore(rc, exists) ==
    IF exists
    THEN [rc EXCEPT !.vector_store = "Chroma", !.retriever = "Retriever"]
    ELSE rc

ingest_documents(rc, source_documents) ==
    IF source_documents = <<>> THEN rc
    ELSE [rc EXCEPT !.vector_store = "Chroma", !.retriever = "Retriever"]

\* Chroma.from_documents(..., persist_directory=VECTORSTORE_DIR) creates
\* the directory
PersistDocuments(exists, source_documents) ==
    exists \/ source_documents # <<>>

setup_qa_chain(rc) ==
    IF rc.retriever = None THEN rc
    ELSE [rc EXCEPT !.qa_chain = "Chain"]

\* retriever.invoke(question): the chunks found for the question; their
\* content is not interpreted by the program
RetrieverResults(question) == {<<"chunks", question>>}

get_chat_history(rc) == rc.memory

\* save_context putting the new exchange first
save_context_prepend(memory, question, answer) ==
    <<[question |-> question, answer |-> answer]>> \o memory

save_context(memory, question, answer) ==
    Append(memory, [question |-> question, answer |-> answer])

NoFrame ==
    [question |-> None, relevant_docs |-> None, context |-> None,
     chat_history |-> <<>>, prompt |-> None, answer |-> None]

NoResponse == [answer |-> None]

NoClick == [files |-> {}, url |-> NoURL]

Init ==
    /\ temp_uploaded = {}
    /\ vectorstore \in BOOLEAN
    /\ started = FALSE
    /\ rag_core = RAGCore
    /\ chain_ready = FALSE
    /\ messages = <<>>
    /\ pc = "idle"
    /\ frame = NoFrame
    /\ response = NoResponse
    /\ notice = None
    /\ trace = <<>>
    /\ exchanges = <<>>
    /\ click = NoClick
    /\ all_docs = <<>>
    /\ nSubmits = 0

\* ------------------------------------------------------------------ app.py
\* first script run of a new session
initialize_session_state ==
    /\ pc = "idle"
    /\ nSubmits' = 0
    /\ started' = TRUE
    /\ rag_core' =
           IF vectorstore
           THEN setup_qa_chain(load_existing_vectorstore(RAGCore, TRUE))
           ELSE load_existing_vectorstore(RAGCore, FALSE)
    /\ chain_ready' = vectorstore
    /\ messages' = <<>>
    /\ exchanges' = <<>>
    /\ notice' = None
    /\ UNCHANGED <<temp_uploaded, vectorstore, pc, frame, response, trace,
                   click, all_docs>>

\* "Ingest Documents" clicked with neither files nor a URL (lines 51-52)
IngestDocumentsNoInput ==
    /\ started /\ pc = "idle"
    /\ notice' = WarnNoInput
    /\ UNCHANGED <<temp_uploaded, vectorstore, started, rag_core,
                   chain_ready, messages, pc, frame, response, trace,
                   exchanges, nSubmits, click, all_docs>>

\* the directory after the uploaded files have been written into it
WriteUploads(dir, uploaded_files) == dir \cup uploaded_files

\* all_docs of the handler: the documents of the directory, then the page
AllDocs(uploaded_files, order, url_to_scrape, ok) ==
    (IF uploaded_files # {} THEN load_documents(order) ELSE <<>>)
    \o (IF url_to_scrape # NoURL THEN scrape_web_page(url_to_scrape, ok)
        ELSE <<>>)

\* "Ingest Documents" clicked with files and/or a URL, lines 53-68: the
\* uploads are written and all_docs is collected; ok: the page was fetched
IngestCollect(uploaded_files, url_to_scrape, ok) ==
    /\ started /\ pc = "idle"
    /\ uploaded_files # {} \/ url_to_scrape # NoURL
    /\ url_to_scrape = NoURL => ok
    /\ LET dir == IF uploaded_files # {}
                  THEN WriteUploads(temp_uploaded, uploaded_files)
                  ELSE temp_uploaded
       IN /\ temp_uploaded' = dir
          /\ \E order \in ListDir(dir) :
                all_docs' = AllDocs(uploaded_files, order, url_to_scrape, ok)
    /\ click' = [files |-> uploaded_files, url |-> url_to_scrape]
    /\ notice' = None
    /\ pc' = "ingest_documents"
    /\ UNCHANGED <<vectorstore, started, rag_core, chain_ready, messages,
                   frame, response, trace, exchanges, nSubmits>>

\* the handler, lines 70-73: ingest_documents, setup_qa_chain, chain_ready
IngestDocuments ==
    /\ pc = "ingest_documents"
    /\ vectorstore' = PersistDocuments(vectorstore, all_docs)
    /\ rag_core' = setup_qa_chain(ingest_documents(rag_core, all_docs))
    /\ chain_ready' = TRUE
    /\ notice' = IngestComplete
    /\ pc' = "idle"
    /\ click' = NoClick
    /\ all_docs' = <<>>
    /\ UNCHANGED <<temp_uploaded, started, messages, frame, response, trace,
                   exchanges, nSubmits>>

\* the embedding model or the Chroma client raises inside ingest_documents
\* (after its early return): the script run ends at line 70, with or
\* without the persist directory created
IngestDocumentsRaises ==
    /\ pc = "ingest_documents"
    /\ all_docs # <<>>
    /\ vectorstore' \in {vectorstore, TRUE}
    /\ pc' = "idle"
    /\ click' = NoClick
    /\ all_docs' = <<>>
    /\ UNCHANGED <<temp_uploaded, started, rag_core, chain_ready, messages,
                   frame, response, notice, trace, exchanges, nSubmits>>

\* the chat handler without the chain_ready check
ChatInputUnguarded(prompt) ==
    /\ started /\ pc = "idle"
    /\ nSubmits < MaxSubmits
    /\ nSubmits' = nSubmits + 1
    /\ messages' = Append(messages, [role |-> "user", content |-> prompt])
    /\ pc' = "ask_question"
    /\ frame' = [NoFrame EXCEPT !.question = prompt]
    /\ notice' = None
    /\ UNCHANGED <<temp_uploaded, vectorstore, started, rag_core,
                   chain_ready, response, trace, exchanges, click, all_docs>>

\* a prompt entered in st.chat_input (lines 88-94)
ChatInput(prompt) ==
    /\ started /\ pc = "idle"
    /\ nSubmits < MaxSubmits
    /\ nSubmits' = nSubmits + 1
    /\ IF ~chain_ready
       THEN /\ notice' = WarnNotReady
            /\ UNCHANGED <<messages, pc, frame>>
       ELSE /\ messages' = Append(messages, [role |-> "user", content |-> prompt])
            /\ pc' = "ask_question"
            /\ frame' = [NoFrame EXCEPT !.question = prompt]
            /\ notice' = None
    /\ UNCHANGED <<temp_uploaded, vectorstore, started, rag_core,
                   chain_ready, response, trace, exchanges, click, all_docs>>

\* ask_question without the check of qa_chain
AskQuestionUnchecked ==
    /\ pc = "ask_question"
    /\ pc' = "retrieve"
    /\ UNCHANGED <<temp_uploaded, vectorstore, started, rag_core,
                   chain_ready, messages, frame, response, notice, trace,
                   exchanges, click, all_docs, nSubmits>>

\* ask_question, lines 99-100: the check of qa_chain
AskQuestionCheck ==
    /\ pc = "ask_question"
    /\ IF rag_core.qa_chain = None
       THEN /\ response' = [answer |-> NotInitialized]
            /\ pc' = "respond"
       ELSE /\ pc' = "retrieve"
            /\ UNCHANGED response
    /\ UNCHANGED <<temp_uploaded, vectorstore, started, rag_core,
                   chain_ready, messages, frame, notice, trace, exchanges,
                   click, all_docs, nSubmits>>

\* an exception leaves ask_question and ends the script run
Raise ==
    /\ pc' = "idle"
    /\ frame' = NoFrame
    /\ trace' = <<>>

\* ask_question, line 102: relevant_docs = self.retriever.invoke(question)
RetrieverInvoke ==
    /\ pc = "retrieve"
    /\ \/ \E docs \in RetrieverResults(frame.question) :
            /\ frame' = [frame EXCEPT !.relevant_docs = docs]
            /\ pc' = "chain_inputs"
            /\ trace' = Append(trace, "retrieval")
       \/ Raise
    /\ UNCHANGED <<temp_uploaded, vectorstore, started, rag_core,
                   chain_ready, messages, response, notice, exchanges,
                   nSubmits, click, all_docs>>

\* qa_chain.invoke, lines 86-90: context, question and chat_history
ChainInputs ==
    /\ pc = "chain_inputs"
    /\ \/ \E docs \in RetrieverResults(frame.question) :
            /\ frame' = [frame EXCEPT !.context = docs,
                                      !.chat_history = get_chat_history(rag_core)]
            /\ pc' = "prompt"
            /\ trace' = Append(trace, "retrieval")
       \/ Raise
    /\ UNCHANGED <<temp_uploaded, vectorstore, started, rag_core,
                   chain_ready, messages, response, notice, exchanges,
                   nSubmits, click, all_docs>>

\* qa_chain.invoke, line 91: RAG_PROMPT filled with the three inputs
PromptAssembly ==
    /\ pc = "prompt"
    /\ frame' = [frame EXCEPT !.prompt =
           [context |-> frame.context,
            chat_history |-> frame.chat_history,
            question |-> frame.question]]
    /\ pc' = "llm"
    /\ trace' = Append(trace, "prompt")
    /\ UNCHANGED <<temp_uploaded, vectorstore, started, rag_core,
                   chain_ready, messages, response, notice, exchanges,
                   nSubmits, click, all_docs>>

\* the chat model step with its exception swallowed: the run goes on to
\* save_context with no answer
LLMInvokeSwallows ==
    /\ pc = "llm"
    /\ \/ \E answer \in Answers :
            /\ frame' = [frame EXCEPT !.answer = answer]
            /\ trace' = Append(trace, "llm")
       \/ UNCHANGED <<frame, trace>>
    /\ pc' = "save_context"
    /\ UNCHANGED <<temp_uploaded, vectorstore, started, rag_core,
                   chain_ready, messages, response, notice, exchanges,
                   click, all_docs, nSubmits>>

\* qa_chain.invoke, lines 92-93: the chat model and the output parser
LLMInvoke ==
    /\ pc = "llm"
    /\ \/ \E answer \in Answers :
            /\ frame' = [frame EXCEPT !.answer = answer]
            /\ pc' = "save_context"
            /\ trace' = Append(trace, "llm")
       \/ Raise
    /\ UNCHANGED <<temp_uploaded, vectorstore, started, rag_core,
                   chain_ready, messages, response, notice, exchanges,
                   nSubmits, click, all_docs>>

\* ask_question, line 108: self.memory.save_context
SaveContext ==
    /\ pc = "save_context"
    /\ rag_core' = [rag_core EXCEPT !.memory =
           save_context(@, frame.question, frame.answer)]
    /\ pc' = "return"
    /\ trace' = Append(trace, "memory")
    /\ UNCHANGED <<temp_uploaded, vectorstore, started, chain_ready,
                   messages, frame, response, notice, exchanges, nSubmits,
                   click, all_docs>>

\* ask_question, line 110: the result with the answer and its sources
AskQuestionReturn ==
    /\ pc = "return"
    /\ response' = [answer |-> frame.answer,
                    source_documents |-> frame.relevant_docs]
    /\ exchanges' = Append(exchanges, [question |-> frame.question,
                                       answer |-> frame.answer])
    /\ pc' = "respond"
    /\ UNCHANGED <<temp_uploaded, vectorstore, started, rag_core,
                   chain_ready, messages, frame, notice, trace, nSubmits,
                   click, all_docs>>

\* the chat handler after ask_question returned (lines 99-109)
Respond ==
    /\ pc = "respond"
    /\ messages' = Append(messages,
           [role |-> "assistant", content |-> response.answer])
    /\ pc' = "idle"
    /\ frame' = NoFrame
    /\ response' = NoResponse
    /\ trace' = <<>>
    /\ UNCHANGED <<temp_uploaded, vectorstore, started, rag_core,
                   chain_ready, notice, exchanges, nSubmits, click, all_docs>>

Next ==
    \/ initialize_session_state
    \/ IngestDocumentsNoInput
    \/ \E uploaded_files \in SUBSET Files, url_to_scrape \in URLs \cup {NoURL},
          ok \in BOOLEAN : IngestCollect(uploaded_files, url_to_scrape, ok)
    \/ IngestDocuments
    \/ IngestDocumentsRaises
    \/ \E prompt \in Questions : ChatInput(prompt)
    \/ AskQuestionCheck
    \/ RetrieverInvoke
    \/ ChainInputs
    \/ PromptAssembly
    \/ LLMInvoke
    \/ SaveContext
    \/ AskQuestionReturn
    \/ Respond

Spec == Init /\ [][Next]_vars

\* ------------------------------------------------------------ properties
IsPrefix(t, p) == Len(t) <= Len(p) /\ \A i \in 1..Len(t) : t[i] = p[i]

\* the steps of one question: retrieval (line 102), the retrieval of the
\* chain (line 87), prompt assembly, model invocation, memory update
PipelineOrder == <<"retrieval", "retrieval", "prompt", "llm", "memory">>

Exchange(f) == [question |-> f.question, answer |-> f.answer]

Initialized == rag_core.retriever # None /\ rag_core.qa_chain # None

\* C1: whenever chain_ready is true the RAGCore of the session has a
\* retriever and a qa_chain, and no question is answered by the fallback
\* "The QA system is not initialized."
C1_ChainReadyImpliesInitialized ==
    /\ chain_ready => Initialized
    /\ pc = "respond" => response.answer # NotInitialized

\* C2: the steps done for a question are always an initial part of
\* retrieval, prompt assembly, model invocation, memory update, taken one at
\* a time in that order; the memory grows only in the step that follows a
\* returned answer of the model, by the exchange of the question being
\* handled, and a question is only taken up when no earlier one is in
\* progress; a run that ends before the model answered leaves the memory as
\* it was.
C2_PipelineOrder ==
    [][/\ IsPrefix(trace', PipelineOrder)
       /\ trace' # trace =>
            \/ trace' = <<>>
            \/ /\ Len(trace) < Len(PipelineOrder)
               /\ trace' = Append(trace, PipelineOrder[Len(trace) + 1])
       /\ Len(rag_core'.memory) > Len(rag_core.memory) =>
            /\ trace = SubSeq(PipelineOrder, 1, 4)
            /\ trace' = PipelineOrder
            /\ frame.answer \in Answers
            /\ rag_core'.memory = Append(rag_core.memory, Exchange(frame))
       /\ (pc' = "ask_question" /\ pc # "ask_question") =>
            (pc = "idle" /\ trace = <<>>)
       /\ (pc \in {"retrieve", "chain_inputs", "llm"} /\ pc' = "idle") =>
            rag_core'.memory = rag_core.memory
      ]_vars

C2_Witness ==
    /\ pc = "return"
    /\ trace = PipelineOrder
    /\ Len(rag_core.memory) = 2

\* C3: the memory holds exactly the exchanges of the ask_question calls that
\* returned an answer of the chain, in the order asked (the one being
\* returned included), also after further Ingest clicks; the chat_history
\* read for a question and placed in its prompt is exactly the exchanges of
\* the earlier questions.
C3_MemoryIsHistory ==
    /\ rag_core.memory =
           IF pc = "return" THEN Append(exchanges, Exchange(frame))
           ELSE exchanges
    /\ pc \in {"prompt", "llm", "save_context", "return"} =>
           frame.chat_history = exchanges
    /\ pc \in {"llm", "save_context", "return"} =>
           /\ frame.prompt.chat_history = exchanges
           /\ frame.prompt.question = frame.question

C3_Witness ==
    /\ pc = "llm"
    /\ Len(exchanges) = 2
    /\ exchanges[1] # exchanges[2]
    /\ frame.prompt.chat_history = exchanges

\* C4: ask_question entered with qa_chain None returns the result with the
\* single key answer, "The QA system is not initialized.", goes straight
\* back to the handler with no pipeline step done, and leaves vector_store,
\* retriever, qa_chain and the memory unchanged.
C4_NotInitializedFallback ==
    [][(pc = "ask_question" /\ rag_core.qa_chain = None /\ pc' # pc) =>
         /\ pc' = "respond"
         /\ DOMAIN response' = {"answer"}
         /\ response'.answer = NotInitialized
         /\ rag_core' = rag_core
         /\ trace' = <<>>
         /\ vectorstore' = vectorstore
      ]_vars

C4_Witness ==
    /\ pc = "respond"
    /\ rag_core.qa_chain = None
    /\ response.answer = NotInitialized

\* C5: a prompt submitted while chain_ready is false gets the warning
\* "Please ingest documents before asking questions.", appends nothing to
\* messages, does not call ask_question and leaves the RAGCore unchanged;
\* hence messages is empty as long as chain_ready is false.
C5_RejectedBeforeReady ==
    /\ [](messages # <<>> => chain_ready)
    /\ [][(nSubmits' = nSubmits + 1 /\ ~chain_ready) =>
            /\ notice' = WarnNotReady
            /\ messages' = messages
            /\ pc' = "idle"
            /\ rag_core' = rag_core
            /\ trace' = trace
            /\ ~chain_ready'
         ]_vars

C5_Witness ==
    /\ notice = WarnNotReady
    /\ nSubmits > 0
    /\ ~chain_ready
    /\ messages = <<>>

\* C6: the documents handed to ingest_documents by an Ingest click are the
\* documents parsed from the files uploaded in that click, followed by the
\* page scraped from its URL, and nothing else.
C6_HandsOnlyThisClick ==
    pc = "ingest_documents" =>
        \E order \in ListDir(click.files), ok \in BOOLEAN :
            all_docs = load_documents(order)
                \o (IF click.url # NoURL THEN scrape_web_page(click.url, ok)
                    ELSE <<>>)
====
